---- MODULE Spec2Model ----
(***************************************************************************)
(* KerberosWinRMClient (src/KerberosWinRMClient.ts): the shell session     *)
(* state machine, the Kerberos negotiation steps and the HTTP 401 /        *)
(* Negotiate retry chain of sendWinRMRequest, with the per-request socket  *)
(* timers of req.setTimeout.                                               *)
(*                                                                         *)
(* One caller invokes the four public operations one after the other (it   *)
(* awaits each promise).  Every operation that goes to the network owns a  *)
(* chain of attempts: Kerberos step, POST, answer, and on 401 + challenge  *)
(* the next step and POST.  Time is counted in ticks; a timer holds the    *)
(* ticks that remain until it fires.                                       *)
(***************************************************************************)
EXTENDS Integers, Sequences, FiniteSets, TLC

\* ---------------------------------------------------------------- bounds
\* most 401 + Negotiate challenges the server issues to one logical request
MaxRetries == 2
\* largest request timeout, in ticks, a client is constructed with
MaxTimeout == 2
\* most challenges in a row a server that never accepts a token issues
MaxChallenges == 4
\* most Stream elements in one Receive response
MaxStreams == 2
\* most characters of a command text
MaxCommandLen == 4
\* most lines the interpreter prints
MaxLines == 4
\* most writes to the interpreter's input
MaxWrites == 2
\* most requests counted for one key
MaxCount == 2
\* most calls of startTracking
MaxListeners == 2

\* ------------------------------------------------------ program constants
DefaultTimeout == 60000
DefaultPath == "/wsman"
Unauthorized == 401
OkLow == 200
OkHigh == 299

\* ------------------------------------------------------------ value sets
NULL == "null"
ShellIds == {"shellA", "shellB"}
\* a command text is the sequence of its characters
Commands == {<<"d", "i", "r">>}

\* the characters XML gives a meaning, and letters that spell an entity
CommandChars == {"&", "<", ">", "\"", "'", "l", "t", ";"}
CommandIds == {"cmd1"}
\* what a caller may pass to receiveOutput: also an identifier that no
\* executeCommand has returned
CallerCommandIds == CommandIds \cup {"cmdX"}
\* Base64 text of a Stream element, one character per entry ("hello",
\* " world", " ", "hi\n"); <<>> is a Stream element without text.  A text is
\* the sequence of its character codes; the payloads decode to ASCII, where
\* a byte and the UTF-8 character it stands for have the same code.
Payloads ==
  {<<>>,
   <<"a", "G", "V", "s", "b", "G", "8", "=">>,
   <<"I", "H", "d", "v", "c", "m", "x", "k">>,
   <<"I", "A", "=", "=">>,
   <<"a", "G", "k", "K">>}

RECURSIVE SeqsUpTo(_, _)
SeqsUpTo(S, n) ==
  IF n = 0 THEN {<<>>}
  ELSE LET shorter == SeqsUpTo(S, n - 1) IN
       shorter \cup {Append(q, x) : q \in shorter, x \in S}

\* every command text up to MaxCommandLen characters, and "&amp;", "a&b"
CommandTexts ==
  SeqsUpTo(CommandChars, MaxCommandLen)
    \cup {<<"&", "a", "m", "p", ";">>, <<"a", "&", "b">>}

\* the rsp:Stream elements of a Receive response, in document order
StreamLists == SeqsUpTo(Payloads, MaxStreams)

\* no stream, one stream without text, one stream with text ("hello")
FewStreamLists ==
  {<<>>, <<<<>>>>, <<<<"a", "G", "V", "s", "b", "G", "8", "=">>>>}
Uuids == {"u1", "u2"}
Challenges == {"chA", "chB"}

\* an optional field of the options object: <<>> when omitted, <<v>> when given
Opt(S) == {<<>>} \cup {<<v>> : v \in S}

\* what a caller may pass: each optional field omitted, falsy or set
AllOptions ==
  [host : {"winrm.example.com"}, port : {5985},
   servicePrincipalName : {"HTTP/winrm.example.com"},
   useSSL : Opt(BOOLEAN), path : Opt({"", "/custom"}),
   timeout : Opt({0, MaxTimeout})]

OptionsSet ==
  [host : {"winrm.example.com"}, port : {5985},
   servicePrincipalName : {"HTTP/winrm.example.com"},
   useSSL : {<<>>}, path : {<<>>},
   timeout : {<<MaxTimeout>>}]

\* constructor: a || default takes the default for an omitted or falsy value
constructor(options) ==
  [host |-> options.host,
   port |-> options.port,
   spn |-> options.servicePrincipalName,
   useSSL |-> IF options.useSSL = <<>> THEN FALSE ELSE options.useSSL[1],
   path |-> IF options.path = <<>> \/ options.path = <<"">>
              THEN DefaultPath ELSE options.path[1],
   timeout |-> IF options.timeout = <<>> \/ options.timeout = <<0>>
                 THEN DefaultTimeout ELSE options.timeout[1]]

\* ------------------------------------------------------------- envelopes
\* str.replace(/c/g, entity)
RECURSIVE replaceAll(_, _, _)
replaceAll(str, c, entity) ==
  IF str = <<>> THEN <<>>
  ELSE (IF Head(str) = c THEN entity ELSE <<Head(str)>>)
         \o replaceAll(Tail(str), c, entity)

Amp == <<"&", "a", "m", "p", ";">>
Lt == <<"&", "l", "t", ";">>
Gt == <<"&", "g", "t", ";">>
Quot == <<"&", "q", "u", "o", "t", ";">>
Apos == <<"&", "a", "p", "o", "s", ";">>

escapeXmlAmpLast(unsafe) ==
  replaceAll(replaceAll(replaceAll(replaceAll(replaceAll(
    unsafe, "<", Lt), ">", Gt), "\"", Quot), "'", Apos), "&", Amp)

\* the five replacements, in the order of the code: & first
escapeXml(unsafe) ==
  replaceAll(replaceAll(replaceAll(replaceAll(replaceAll(
    unsafe, "&", Amp), "<", Lt), ">", Gt), "\"", Quot), "'", Apos)

toAddressPlain(c) == <<"http", c.host, c.port, c.path>>

\* the wsa:To address the builders write
toAddress(c) ==
  <<IF c.useSSL THEN "https" ELSE "http", c.host, c.port, c.path>>

buildCreateShellEnvelope(c, uuid) ==
  [action |-> "Create", to |-> toAddress(c), messageId |-> uuid,
   shellId |-> NULL, arg |-> "", commandLine |-> <<>>]

buildExecuteCommandEnvelope(c, uuid, sid, command) ==
  [action |-> "Command", to |-> toAddress(c), messageId |-> uuid,
   shellId |-> sid, arg |-> "", commandLine |-> escapeXml(command)]

buildReceiveEnvelope(c, uuid, sid, commandId) ==
  [action |-> "Receive", to |-> toAddress(c), messageId |-> uuid,
   shellId |-> sid, arg |-> commandId, commandLine |-> <<>>]

buildDeleteShellEnvelope(c, uuid, sid) ==
  [action |-> "Delete", to |-> toAddress(c), messageId |-> uuid,
   shellId |-> sid, arg |-> "", commandLine |-> <<>>]

\* ------------------------------------------------------- HTTP responses
\* A WWW-Authenticate header value is the sequence of its space-separated
\* words; <<>> is a response without the header.
Headers ==
  {<<>>, <<"Negotiate">>, <<"Basic", "realm">>}
    \cup {<<"Negotiate", ch>> : ch \in Challenges}

\* A response body after XML parsing: the element found under
\* s:Envelope/s:Body and its text.  "Malformed" is text parseString rejects;
\* "Other" is any well-formed body without the element the operation looks
\* for (the response of another operation, a fault, ...).
\* t: the element, v: its text, streams: the rsp:Stream elements below it
Body(t, v) == [t |-> t, v |-> v, streams |-> <<>>]

NoBody == Body("none", "")

ReceiveResponses(lists) ==
  {[Body("ReceiveResponse", "") EXCEPT !.streams = l] : l \in lists}

Bodies(action) ==
  {Body("Malformed", ""), Body("Other", "")}
    \cup (CASE action = "Create" ->
                 {Body("Shell", s) : s \in ShellIds \cup {""}}
            [] action = "Command" ->
                 {Body("CommandResponse", k) : k \in CommandIds \cup {""}}
            [] action = "Receive" ->
                 ReceiveResponses(FewStreamLists)
            [] OTHER -> {})

\* What the response callback reads of an answer: the status, on 401 the
\* WWW-Authenticate header, on a status it goes on to parse, the body.
Responses(action) ==
  {[status |-> 401, hdr |-> h, body |-> NoBody] : h \in Headers}
    \cup {[status |-> st, hdr |-> <<>>, body |-> NoBody] : st \in {199, 300, 500}}
    \cup {[status |-> st, hdr |-> <<>>, body |-> b] :
            st \in {200, 299}, b \in Bodies(action)}

hasAnyChallenge(h) == Len(h) >= 2

\* negotiateHeader && typeof string && startsWith('Negotiate ')
hasNegotiateChallenge(h) == Len(h) >= 2 /\ h[1] = "Negotiate"

challengeUnstripped(h) == h[1]

\* negotiateHeader.substring('Negotiate '.length)
challengeOf(h) == h[2]

isUnauthorized(status) == status = Unauthorized

isFailureStatusAbove(status) == status > OkHigh /\ status # Unauthorized

\* statusCode < 200 || statusCode > 299, and not 401
isFailureStatus(status) ==
  (status < OkLow \/ status > OkHigh) /\ status # Unauthorized

parseXmlNeverFails(body) == FALSE

parseXmlFails(body) == body.t = "Malformed"

extractShellId(body) == IF body.t = "Shell" THEN body.v ELSE NULL

extractCommandId(body) == IF body.t = "CommandResponse" THEN body.v ELSE NULL

\* Buffer.from(text, 'base64'): the 64 digits, "=" ends the data
Base64Chars ==
  <<"A", "B", "C", "D", "E", "F", "G", "H", "I", "J", "K", "L", "M",
    "N", "O", "P", "Q", "R", "S", "T", "U", "V", "W", "X", "Y", "Z",
    "a", "b", "c", "d", "e", "f", "g", "h", "i", "j", "k", "l", "m",
    "n", "o", "p", "q", "r", "s", "t", "u", "v", "w", "x", "y", "z",
    "0", "1", "2", "3", "4", "5", "6", "7", "8", "9", "+", "/">>

base64Value(c) == (CHOOSE i \in DOMAIN Base64Chars : Base64Chars[i] = c) - 1

isBase64Digit(c) == c # "="

\* four digits are 24 bits: three bytes; two digits one byte, three two
RECURSIVE base64Bytes(_)
base64Bytes(d) ==
  IF Len(d) < 2 THEN <<>>
  ELSE LET v(i) == IF i <= Len(d) THEN base64Value(d[i]) ELSE 0
           n == v(1) * 262144 + v(2) * 4096 + v(3) * 64 + v(4)
           b1 == n \div 65536
           b2 == (n \div 256) % 256
           b3 == n % 256
       IN CASE Len(d) = 2 -> <<b1>>
            [] Len(d) = 3 -> <<b1, b2>>
            [] OTHER -> <<b1, b2, b3>> \o base64Bytes(SubSeq(d, 5, Len(d)))

base64Decode(text) == base64Bytes(SelectSeq(text, isBase64Digit))

\* String.prototype.trim: white space and line terminators, at both ends
isWhiteSpace(code) == code \in {9, 10, 11, 12, 13, 32}

RECURSIVE trimStart(_)
trimStart(str) ==
  IF str # <<>> /\ isWhiteSpace(Head(str)) THEN trimStart(Tail(str)) ELSE str

RECURSIVE trimEnd(_)
trimEnd(str) ==
  IF str # <<>> /\ isWhiteSpace(str[Len(str)])
    THEN trimEnd(SubSeq(str, 1, Len(str) - 1)) ELSE str

trim(str) == trimStart(trimEnd(str))

\* the loop over the streams: a stream with text is decoded and appended
RECURSIVE decodeStreams(_)
decodeStreams(streams) ==
  IF streams = <<>> THEN <<>>
  ELSE (IF Head(streams) # <<>> THEN base64Decode(Head(streams)) ELSE <<>>)
         \o decodeStreams(Tail(streams))

\* <<>> is the empty string
extractCommandOutput(body) ==
  IF body.t = "ReceiveResponse" THEN trim(decodeStreams(body.streams)) ELSE <<>>

isNull(x) == x = NULL

\* JavaScript !x for a string or null
falsy(x) == x = NULL \/ x = ""

\* the token client.step(challenge) hands back: opaque, identified by the
\* invocation (the n-th step of the request) and the challenge it consumed
kerberosStep(n, challenge) == [n |-> n, in |-> challenge]

\* ---------------------------------------------------------------- state
VARIABLES
  cfg,      \* host, port, spn, useSSL, path, timeout: set by the constructor
  shellId,  \* this.shellId: NULL or the identifier of the open shell
  op,       \* the caller's latest invocation and how it settled
  cur,      \* the retry chain of the latest invocation (NoChain: none)
  zombies,  \* the abandoned chain: still running, its operation long settled
  ps,       \* the PSSessionManager (src/PSSessionManager.ts) and its process
  tr        \* the ApiTracker (src/apirequestsimple.ts) and its page

vars == <<cfg, shellId, op, cur, zombies, ps, tr>>

\* A timer is <<>> (not armed, fired or dropped) or <<n>>: n ticks remain.
NoTimer == <<>>

NoEnvelope ==
  [action |-> "none", to |-> <<>>, messageId |-> "", shellId |-> NULL,
   arg |-> "", commandLine |-> <<>>]

NoAnswer == [status |-> 0, hdr |-> <<>>, body |-> NoBody]

\* phase: "step"     a Kerberos step is running (chal: the challenge it got)
\*        "inflight" the latest POST is on the wire, not yet answered
\*        "dead"     the chain has ended: nothing more is sent
\* posts, chals, tm: one entry per POST sent / challenge taken / POST's timer
\* steps, trace, last, fired, el record what happened, for the properties
\* early: the chain of a call that a later, overlapping call has overtaken
\*        while its caller still awaits it
NoChain ==
  [phase |-> "none", env |-> NoEnvelope, chal |-> "", steps |-> 0,
   posts |-> <<>>, chals |-> <<>>, tm |-> <<>>, trace |-> <<>>,
   last |-> NoAnswer, fired |-> FALSE, el |-> 0, early |-> FALSE]

newChain(envelope) == [NoChain EXCEPT !.phase = "step", !.env = envelope]

live(ch) == ch.phase \in {"step", "inflight"}

IdleOp ==
  [kind |-> "none", arg |-> "", st |-> "idle", err |-> "none", status |-> 0,
   ret |-> NULL, before |-> NULL]

invoked(kind, arg) ==
  [IdleOp EXCEPT !.kind = kind, !.arg = arg, !.st = "pending", !.before = shellId]

returned(o, value) == [o EXCEPT !.st = "ok", !.ret = value]

failed(o, err, status) == [o EXCEPT !.st = "failed", !.err = err, !.status = status]

\* PSSessionManager after its constructor: no process, nothing read
\* creds: username and password are non-empty
\* proc: psProcess is null ("none") or the spawned process ("running")
\* buf: outputBuffer, a line being "text" or "prompt" (matches promptRegex)
\* stdin: what was written to the process
\* conn, run: the latest connect / runCommand call: idle, pending, ok, failed
\* setup, ready: the 1 s and 1.5 s timers of connect are armed
\* poll: the 300 ms interval of runCommand is armed
\* disc: the latest disconnect call: idle, pending, ok
NoSession ==
  [creds |-> TRUE, proc |-> "none", buf |-> <<>>, stdin |-> <<>>,
   conn |-> "idle", setup |-> FALSE, ready |-> FALSE,
   run |-> "idle", poll |-> FALSE, initialLength |-> 0, result |-> <<>>,
   disc |-> "idle"]

\* the keys "METHOD url" of the requests a page makes
Keys == {"GET /a", "POST /b"}

\* the calls of waitForRequest that may be outstanding together
Waiters == {1, 2}

NoWaiter == [key |-> "", st |-> "idle", timer |-> FALSE]

\* a call of waitForRequestCount: its timeout timer and its 100 ms check
NoCounting ==
  [key |-> "", expectedCount |-> 0, st |-> "idle", timer |-> FALSE,
   check |-> FALSE]

\* ApiTracker after its constructor
\* listeners: the handlers startTracking registered for 'request'
\* stopped: stopTracking has returned since the last startTracking
\* requestMap: the count of each key (0 when the key is absent)
\* pendingRequests: the waiters of each key, in order (<<>> when absent)
\* waiters: the calls of waitForRequest; counting: that of waitForRequestCount
NoTracker ==
  [listeners |-> <<>>, stopped |-> FALSE,
   requestMap |-> [k \in Keys |-> 0],
   pendingRequests |-> [k \in Keys |-> <<>>],
   waiters |-> [w \in Waiters |-> NoWaiter],
   counting |-> NoCounting]

Init ==
  /\ tr = NoTracker
  /\ cfg \in {constructor(options) : options \in OptionsSet}
  /\ shellId = NULL
  /\ op = IdleOp
  /\ cur = NoChain
  /\ zombies = {}
  /\ ps = NoSession

\* Once the operation has settled, the timer of an answered request can only
\* abort a finished exchange and reject a settled promise: it is dropped.
quiet(ch) ==
  [ch EXCEPT !.tm = [i \in DOMAIN ch.tm |->
      IF i = Len(ch.tm) /\ ch.phase = "inflight" THEN ch.tm[i] ELSE NoTimer]]

\* A chain that runs on beside a later operation is followed for the requests
\* it still puts on the wire: which action, which ShellId selector, and the
\* client's shellId at the moment of the POST.
NoToken == [n |-> 0, in |-> ""]

abandoned(ch) ==
  LET envelope == [ch.env EXCEPT !.messageId = "", !.arg = "", !.commandLine = <<>>] IN
  [NoChain EXCEPT
     !.phase = ch.phase,
     !.env = envelope,
     !.posts = IF ch.phase = "inflight"
                 THEN <<[token |-> NoToken, envelope |-> envelope,
                         shell |-> ch.posts[Len(ch.posts)].shell,
                         target |-> ch.posts[Len(ch.posts)].target]>>
                 ELSE <<>>,
     !.tm = IF ch.phase = "inflight" THEN <<ch.tm[Len(ch.tm)]>> ELSE <<>>]

\* At an invocation the chain of the previous operation, if it still runs,
\* becomes the abandoned chain that is followed (the one before it no longer).
retire == IF live(cur) THEN {abandoned(cur)} ELSE zombies

\* ----------------------------------------------------- public operations
\* The caller awaits each operation before it starts the next.  A chain that
\* is still running when the next operation starts runs on beside it.
canInvoke == op.st # "pending"

createShellAlways ==
  /\ canInvoke
  /\ zombies' = retire
  /\ \E uuid \in Uuids :
       /\ op' = invoked("create", "")
       /\ cur' = newChain(buildCreateShellEnvelope(cfg, uuid))
  /\ UNCHANGED <<tr, ps, cfg, shellId>>

\* createShell up to its first await
createShell ==
  /\ canInvoke
  /\ zombies' = retire
  /\ IF ~falsy(shellId)
       THEN /\ op' = returned(invoked("create", ""), shellId)
            /\ cur' = NoChain
       ELSE \E uuid \in Uuids :
              /\ op' = invoked("create", "")
              /\ cur' = newChain(buildCreateShellEnvelope(cfg, uuid))
  /\ UNCHANGED <<tr, ps, cfg, shellId>>

executeCommandUnchecked(command) ==
  /\ canInvoke
  /\ zombies' = retire
  /\ \E uuid \in Uuids :
       /\ op' = invoked("exec", command)
       /\ cur' = newChain(
             buildExecuteCommandEnvelope(cfg, uuid, shellId, command))
  /\ UNCHANGED <<tr, ps, cfg, shellId>>

\* executeCommand up to its first await
executeCommand(command) ==
  /\ canInvoke
  /\ zombies' = retire
  /\ IF falsy(shellId)
       THEN /\ op' = failed(invoked("exec", command), "precondition", 0)
            /\ cur' = NoChain
       ELSE \E uuid \in Uuids :
              /\ op' = invoked("exec", command)
              /\ cur' = newChain(
                    buildExecuteCommandEnvelope(cfg, uuid, shellId, command))
  /\ UNCHANGED <<tr, ps, cfg, shellId>>

receiveOutputKnownOnly(commandId) ==
  /\ canInvoke
  /\ zombies' = retire
  /\ IF falsy(shellId) \/ commandId \notin CommandIds
       THEN /\ op' = failed(invoked("recv", commandId), "precondition", 0)
            /\ cur' = NoChain
       ELSE \E uuid \in Uuids :
              /\ op' = invoked("recv", commandId)
              /\ cur' = newChain(
                    buildReceiveEnvelope(cfg, uuid, shellId, commandId))
  /\ UNCHANGED <<tr, ps, cfg, shellId>>

\* receiveOutput up to its first await
receiveOutput(commandId) ==
  /\ canInvoke
  /\ zombies' = retire
  /\ IF falsy(shellId)
       THEN /\ op' = failed(invoked("recv", commandId), "precondition", 0)
            /\ cur' = NoChain
       ELSE \E uuid \in Uuids :
              /\ op' = invoked("recv", commandId)
              /\ cur' = newChain(
                    buildReceiveEnvelope(cfg, uuid, shellId, commandId))
  /\ UNCHANGED <<tr, ps, cfg, shellId>>

deleteShellUnchecked ==
  /\ canInvoke
  /\ zombies' = retire
  /\ \E uuid \in Uuids :
       /\ op' = invoked("delete", "")
       /\ cur' = newChain(buildDeleteShellEnvelope(cfg, uuid, shellId))
  /\ UNCHANGED <<tr, ps, cfg, shellId>>

\* deleteShell up to its first await
deleteShell ==
  /\ canInvoke
  /\ zombies' = retire
  /\ IF falsy(shellId)
       THEN /\ op' = returned(invoked("delete", ""), NULL)
            /\ cur' = NoChain
       ELSE \E uuid \in Uuids :
              /\ op' = invoked("delete", "")
              /\ cur' = newChain(buildDeleteShellEnvelope(cfg, uuid, shellId))
  /\ UNCHANGED <<tr, ps, cfg, shellId>>

\* ------------------------------------- what follows await sendWinRMRequest
createShellResumeStoresFirst(body) ==
  LET sid == extractShellId(body) IN
  /\ shellId' = sid
  /\ op' = IF falsy(sid) THEN failed(op, "protocol", 0) ELSE returned(op, sid)

createShellResume(body) ==
  LET sid == extractShellId(body) IN
  IF falsy(sid)
    THEN op' = failed(op, "protocol", 0) /\ shellId' = shellId
    ELSE shellId' = sid /\ op' = returned(op, sid)

executeCommandResumeUnchecked(body) ==
  /\ shellId' = shellId
  /\ op' = returned(op, extractCommandId(body))

executeCommandResume(body) ==
  LET commandId == extractCommandId(body) IN
  /\ shellId' = shellId
  /\ op' = IF falsy(commandId) THEN failed(op, "protocol", 0)
           ELSE returned(op, commandId)

receiveOutputResumeRejectsEmpty(body) ==
  /\ shellId' = shellId
  /\ op' = IF extractCommandOutput(body) = <<>> THEN failed(op, "protocol", 0)
           ELSE returned(op, extractCommandOutput(body))

receiveOutputResume(body) ==
  /\ shellId' = shellId
  /\ op' = returned(op, extractCommandOutput(body))

deleteShellResume(body) ==
  /\ shellId' = NULL
  /\ op' = returned(op, NULL)

\* ------------------------------------------------- the negotiation chain
\* own: the chain is cur, the chain of the latest invocation.  Its outermost
\* promise is the one the operation awaits; the first settlement wins and any
\* later resolve or reject of it does nothing.
awaited(own) == own /\ op.st = "pending"

resolve(own, body) ==
  IF awaited(own)
    THEN CASE op.kind = "create" -> createShellResume(body)
           [] op.kind = "exec" -> executeCommandResume(body)
           [] op.kind = "recv" -> receiveOutputResume(body)
           [] op.kind = "delete" -> deleteShellResume(body)
    ELSE UNCHANGED <<op, shellId>>

rejectClearsShell(own, err, status) ==
  /\ op' = IF awaited(own) THEN failed(op, err, status) ELSE op
  /\ shellId' = IF awaited(own) /\ op.kind = "delete" THEN NULL ELSE shellId

reject(own, err, status) ==
  /\ op' = IF awaited(own) THEN failed(op, err, status) ELSE op
  /\ shellId' = shellId

store(own, ch, next) ==
  IF own
    THEN /\ cur' = IF op'.st = "pending" THEN next ELSE quiet(next)
         /\ zombies' = zombies
    ELSE /\ cur' = cur
         /\ zombies' = (zombies \ {ch})
                         \cup (IF live(next) THEN {abandoned(next)} ELSE {})

\* where the POST goes: the https module when useSSL, else http, with
\* requestOptions.host, port and path
requestTarget(c) ==
  <<IF c.useSSL THEN "https" ELSE "http", c.host, c.port, c.path>>

\* sendWinRMRequest: POST the envelope with Authorization: Negotiate <token>
\* and arm the request's timer
sendWinRMRequest(ch, soapEnvelope, negotiateToken) ==
  [ch EXCEPT !.phase = "inflight",
             !.posts = Append(@, [token |-> negotiateToken,
                                  envelope |-> soapEnvelope,
                                  shell |-> shellId,
                                  target |-> requestTarget(cfg)]),
             !.tm = Append(@, <<cfg.timeout>>),
             !.trace = Append(@, "post")]

\* one client.step(challenge) call: getInitialKerberosToken / doKerberosStep
stepped(ch) == [ch EXCEPT !.steps = @ + 1, !.trace = Append(@, "step")]

kerberosStepOnlyOnce(own, ch) ==
  /\ ch.phase = "step"
  /\ UNCHANGED <<tr, ps, cfg, op, shellId>>
  /\ store(own, ch,
       IF ch.posts = <<>>
         THEN sendWinRMRequest(stepped(ch), ch.env,
                               kerberosStep(ch.steps + 1, ch.chal))
         ELSE sendWinRMRequest(ch, ch.env, ch.posts[Len(ch.posts)].token))

\* the step yields a token; the continuation sends the request with it
kerberosStepSucceeds(own, ch) ==
  /\ ch.phase = "step"
  /\ UNCHANGED <<tr, ps, cfg, op, shellId>>
  /\ store(own, ch, sendWinRMRequest(stepped(ch), ch.env,
                                     kerberosStep(ch.steps + 1, ch.chal)))

kerberosStepFailsAndRetries(own, ch) ==
  /\ ch.phase = "step"
  /\ UNCHANGED <<tr, ps, cfg, op, shellId>>
  /\ store(own, ch, stepped(ch))

\* initializeClient or client.step reports an error
kerberosStepFails(own, ch) ==
  /\ ch.phase = "step"
  /\ reject(own, "auth", 0)
  /\ store(own, ch, [stepped(ch) EXCEPT !.phase = "dead"])
  /\ UNCHANGED <<tr, ps, cfg>>

onResponseCapped(own, ch, res, most) ==
  /\ ch.phase = "inflight"
  /\ UNCHANGED <<tr, ps, cfg>>
  /\ IF hasNegotiateChallenge(res.hdr) /\ Len(ch.chals) < 3
       THEN /\ UNCHANGED <<op, shellId>>
            /\ store(own, ch,
                 [ch EXCEPT !.phase = "step",
                            !.chal = challengeOf(res.hdr),
                            !.chals = Append(@, challengeOf(res.hdr)),
                            !.tm[Len(ch.tm)] = <<cfg.timeout>>,
                            !.last = res])
       ELSE /\ reject(own, "auth", 0)
            /\ store(own, ch, [ch EXCEPT !.phase = "dead", !.last = res])

\* the response callback of sendWinRMRequest, with the body's 'end'.
\* The code retries on every 401 + challenge; most is the number of
\* challenges the server issues to one logical request.
onResponseWithin(own, ch, res, most) ==
  /\ ch.phase = "inflight"
  /\ UNCHANGED <<tr, ps, cfg>>
  /\ IF isUnauthorized(res.status)
       THEN IF hasNegotiateChallenge(res.hdr)
              THEN /\ Len(ch.tm) <= most
                   /\ UNCHANGED <<op, shellId>>
                   /\ store(own, ch,
                        [ch EXCEPT !.phase = "step",
                                   !.chal = challengeOf(res.hdr),
                                   !.chals = Append(@, challengeOf(res.hdr)),
                                   !.tm[Len(ch.tm)] = <<cfg.timeout>>,
                                   !.last = res])
              ELSE /\ reject(own, "auth", 0)
                   /\ store(own, ch, [ch EXCEPT !.phase = "dead", !.last = res])
       ELSE IF isFailureStatus(res.status)
              THEN /\ reject(own, "transport", res.status)
                   /\ store(own, ch, [ch EXCEPT !.phase = "dead", !.last = res])
              ELSE /\ IF parseXmlFails(res.body)
                        THEN reject(own, "parse", 0)
                        ELSE resolve(own, res.body)
                   /\ store(own, ch, [ch EXCEPT !.phase = "dead", !.last = res])

onResponse(own, ch, res) == onResponseWithin(own, ch, res, MaxRetries)

onErrorResetsTimeout(own, ch) ==
  /\ ch.phase = "inflight"
  /\ reject(own, "transport", 0)
  /\ store(own, ch, [ch EXCEPT !.phase = "dead"])
  /\ cfg' = [cfg EXCEPT !.timeout = DefaultTimeout]
  /\ UNCHANGED <<tr, ps>>

\* req.on('error')
onError(own, ch) ==
  /\ ch.phase = "inflight"
  /\ reject(own, "transport", 0)
  /\ store(own, ch, [ch EXCEPT !.phase = "dead"])
  /\ UNCHANGED <<tr, ps, cfg>>

\* the req.setTimeout callback of the i-th request of the chain:
\* req.abort(), then reject
onTimeout(own, ch, i) ==
  /\ i \in DOMAIN ch.tm
  /\ ch.tm[i] # NoTimer
  /\ reject(own, "timeout", 0)
  /\ store(own, ch,
       [ch EXCEPT !.tm[i] = NoTimer,
                  !.fired = TRUE,
                  !.phase = IF i = Len(ch.tm) /\ ch.phase = "inflight"
                              THEN "dead" ELSE @])
  /\ UNCHANGED <<tr, ps, cfg>>

Chains(own) == IF own THEN {cur} ELSE zombies

\* Next leaves the moment a timer fires open: an armed timer may fire at any
\* time, which covers every timing.
Next ==
  \/ createShell
  \/ \E command \in Commands : executeCommand(command)
  \/ \E commandId \in CallerCommandIds : receiveOutput(commandId)
  \/ deleteShell
  \/ \E own \in BOOLEAN : \E ch \in Chains(own) : kerberosStepSucceeds(own, ch)
  \/ \E own \in BOOLEAN : \E ch \in Chains(own) : kerberosStepFails(own, ch)
  \/ \E own \in BOOLEAN : \E ch \in Chains(own) :
       \E res \in Responses(ch.env.action) : onResponse(own, ch, res)
  \/ \E own \in BOOLEAN : \E ch \in Chains(own) : onError(own, ch)
  \/ \E own \in BOOLEAN : \E ch \in Chains(own) :
       \E i \in 1..(MaxRetries + 1) : onTimeout(own, ch, i)

Spec == Init /\ [][Next]_vars

\* --------------------------------------------------------------- timing
\* one tick of time: every armed timer has one tick less to run; el counts
\* the ticks since the first POST of an operation that has not settled
aged(ch, counting) ==
  [ch EXCEPT !.tm = [i \in DOMAIN ch.tm |->
                       IF ch.tm[i] = NoTimer THEN NoTimer ELSE <<ch.tm[i][1] - 1>>],
             !.el = IF counting THEN @ + 1 ELSE @]

\* time does not pass a timer that is due
Tick ==
  /\ \A ch \in {cur} \cup zombies : \A i \in DOMAIN ch.tm : ch.tm[i] # <<0>>
  /\ cur' = aged(cur, op.st = "pending" /\ Len(cur.posts) >= 1)
  /\ zombies' = {aged(z, FALSE) : z \in zombies}
  /\ UNCHANGED <<tr, ps, cfg, shellId, op>>

\* socket.setTimeout: the callback runs once the socket has been idle for
\* the whole timeout
onTimeoutDue(own, ch, i) ==
  /\ i \in DOMAIN ch.tm
  /\ ch.tm[i] = <<0>>
  /\ onTimeout(own, ch, i)

\* The timed specification follows shell creation and deletion: every
\* operation runs the same request chain under the same timers.
NextTimed ==
  \/ createShell
  \/ deleteShell
  \/ \E own \in BOOLEAN : \E ch \in Chains(own) : kerberosStepSucceeds(own, ch)
  \/ \E own \in BOOLEAN : \E ch \in Chains(own) : kerberosStepFails(own, ch)
  \/ \E own \in BOOLEAN : \E ch \in Chains(own) :
       \E res \in Responses(ch.env.action) : onResponse(own, ch, res)
  \/ \E own \in BOOLEAN : \E ch \in Chains(own) : onError(own, ch)
  \/ \E own \in BOOLEAN : \E ch \in Chains(own) :
       \E i \in 1..(MaxRetries + 1) : onTimeoutDue(own, ch, i)
  \/ Tick

SpecTimed == Init /\ [][NextTimed]_vars

\* ------------------------------------- a server that never accepts a token
\* every POST is answered 401 with a Negotiate challenge that differs from
\* the one before
onChallenge(own, ch) ==
  \E c \in Challenges \ {ch.chal} :
    onResponseWithin(own, ch,
      [status |-> 401, hdr |-> <<"Negotiate", c>>, body |-> NoBody],
      MaxChallenges)

NextChallenged ==
  \/ createShell
  \/ \E own \in BOOLEAN : \E ch \in Chains(own) : kerberosStepSucceeds(own, ch)
  \/ \E own \in BOOLEAN : \E ch \in Chains(own) : onChallenge(own, ch)
  \/ \E own \in BOOLEAN : \E ch \in Chains(own) :
       \E i \in 1..(MaxChallenges + 1) : onTimeout(own, ch, i)

SpecChallenged == Init /\ [][NextChallenged]_vars

\* ------------------------------------------- the output of receiveOutput
\* A shell is created and Receive requests are answered, after challenges or
\* at once, with every list of streams up to MaxStreams.
ReceiveAnswers(action) ==
  CASE action = "Create" ->
         {[status |-> 200, hdr |-> <<>>, body |-> Body("Shell", s)] :
            s \in ShellIds}
    [] action = "Receive" ->
         {[status |-> 401, hdr |-> <<"Negotiate", c>>, body |-> NoBody] :
            c \in Challenges}
           \cup {[status |-> 200, hdr |-> <<>>, body |-> b] :
                   b \in ReceiveResponses(StreamLists) \cup {Body("Other", "")}}
    [] OTHER -> {}

NextReceive ==
  \/ createShell
  \/ \E commandId \in CommandIds : receiveOutput(commandId)
  \/ kerberosStepSucceeds(TRUE, cur)
  \/ \E res \in ReceiveAnswers(cur.env.action) : onResponse(TRUE, cur, res)

SpecReceive == Init /\ [][NextReceive]_vars

\* ------------------------------------------ the command text on the wire
\* A shell is created, and in it executeCommand builds its envelope for
\* every command text of CommandTexts.
NextEscape ==
  \/ createShell
  \/ cur.env.action = "Create" /\ kerberosStepSucceeds(TRUE, cur)
  \/ /\ cur.env.action = "Create"
     /\ \E res \in ReceiveAnswers("Create") : onResponse(TRUE, cur, res)
  \/ /\ canInvoke /\ ~falsy(shellId)
     /\ \E command \in CommandTexts : executeCommand(command)

SpecEscape == Init /\ [][NextEscape]_vars

\* ---------------------------------------------------------- construction
\* A client constructed from any options object of AllOptions creates a
\* shell, sends commands, asks for output and deletes the shell.
InitConstruct ==
  /\ tr = NoTracker
  /\ cfg \in {constructor(options) : options \in AllOptions}
  /\ shellId = NULL
  /\ op = IdleOp
  /\ cur = NoChain
  /\ zombies = {}
  /\ ps = NoSession

NextConstruct ==
  \/ createShell
  \/ \E command \in Commands : executeCommand(command)
  \/ \E commandId \in CommandIds : receiveOutput(commandId)
  \/ deleteShell
  \/ kerberosStepSucceeds(TRUE, cur)
  \/ \E res \in ReceiveAnswers(cur.env.action) : onResponse(TRUE, cur, res)

SpecConstruct == InitConstruct /\ [][NextConstruct]_vars

\* ---------------------------------------------------- overlapping calls
\* The caller starts a second createShell while the first is pending.

createShellSerialized ==
  /\ op.st = "pending" /\ op.kind = "create" /\ live(cur) /\ zombies = {}
  /\ zombies' = {[cur EXCEPT !.early = TRUE]}
  /\ op' = invoked("create", "")
  /\ cur' = NoChain
  /\ UNCHANGED <<tr, ps, cfg, shellId>>

\* createShell up to its first await, entered while an earlier createShell
\* is suspended at one of its awaits
createShellOverlapping ==
  /\ op.st = "pending" /\ op.kind = "create" /\ live(cur) /\ zombies = {}
  /\ zombies' = {[cur EXCEPT !.early = TRUE]}
  /\ IF ~falsy(shellId)
       THEN /\ op' = returned(invoked("create", ""), shellId)
            /\ cur' = NoChain
       ELSE \E uuid \in Uuids :
              /\ op' = invoked("create", "")
              /\ cur' = newChain(buildCreateShellEnvelope(cfg, uuid))
  /\ UNCHANGED <<tr, ps, cfg, shellId>>

\* the earlier call's Kerberos step yields a token and its request is sent
earlyStepSucceeds(ch) ==
  /\ ch.early /\ ch.phase = "step"
  /\ zombies' = {sendWinRMRequest(stepped(ch), ch.env,
                                   kerberosStep(ch.steps + 1, ch.chal))}
  /\ UNCHANGED <<tr, ps, cfg, op, shellId, cur>>

\* the earlier call's request is answered 2xx and its createShell resumes
earlyResponse(ch, res) ==
  /\ ch.early /\ ch.phase = "inflight"
  /\ ~isUnauthorized(res.status) /\ ~isFailureStatus(res.status)
  /\ ~parseXmlFails(res.body)
  /\ LET sid == extractShellId(res.body) IN
       shellId' = IF falsy(sid) THEN shellId ELSE sid
  /\ zombies' = {[ch EXCEPT !.phase = "dead", !.last = res]}
  /\ UNCHANGED <<tr, ps, cfg, op, cur>>

NextOverlap ==
  \/ createShell
  \/ createShellOverlapping
  \/ kerberosStepSucceeds(TRUE, cur)
  \/ \E res \in ReceiveAnswers(cur.env.action) : onResponse(TRUE, cur, res)
  \/ \E ch \in zombies : earlyStepSucceeds(ch)
  \/ \E ch \in zombies :
       \E res \in ReceiveAnswers(ch.env.action) : earlyResponse(ch, res)

SpecOverlap == Init /\ [][NextOverlap]_vars

\* ------------------------------------------ the identifiers on the wire
\* In an open shell receiveOutput is called with every text of CommandTexts
\* as the command identifier.
NextSelectors ==
  \/ createShell
  \/ cur.env.action = "Create" /\ kerberosStepSucceeds(TRUE, cur)
  \/ /\ cur.env.action = "Create"
     /\ \E res \in ReceiveAnswers("Create") : onResponse(TRUE, cur, res)
  \/ /\ canInvoke /\ ~falsy(shellId)
     /\ \E commandId \in CommandTexts : receiveOutput(commandId)

SpecSelectors == Init /\ [][NextSelectors]_vars

\* --------------------------------------------------- the PowerShell session
\* what a line of the interpreter's output is to promptRegex
LineKinds == {"text", "prompt"}

\* connect: rejects without credentials, else spawns the interpreter and arms
\* the one-second setup timer; the promise stays pending
connect ==
  /\ ps.conn # "pending"
  /\ ps.proc = "none"
  /\ IF ~ps.creds
       THEN ps' = [ps EXCEPT !.conn = "failed"]
       ELSE ps' = [ps EXCEPT !.conn = "pending", !.proc = "running",
                             !.stdin = <<>>, !.setup = TRUE]
  /\ UNCHANGED <<cfg, shellId, op, cur, zombies, tr>>

\* rl.on('line') and stderr.on('data'): the line is pushed to outputBuffer
onLine(kind) ==
  /\ ps.proc = "running"
  /\ Len(ps.buf) < MaxLines
  /\ ps' = [ps EXCEPT !.buf = Append(@, kind)]
  /\ UNCHANGED <<cfg, shellId, op, cur, zombies, tr>>

\* the 'exit' event: the listener of connect sets psProcess to null, and the
\* listener a pending disconnect added does the same and resolves it
onExit ==
  /\ ps.proc = "running"
  /\ ps' = [ps EXCEPT !.proc = "none",
                      !.disc = IF @ = "pending" THEN "ok" ELSE @]
  /\ UNCHANGED <<cfg, shellId, op, cur, zombies, tr>>

\* the one-second timer of connect: with no process it returns, neither
\* resolving nor rejecting; else it writes the setup commands and arms the
\* 1.5 s timer
onSetupTimer ==
  /\ ps.setup
  /\ IF ps.proc = "none"
       THEN ps' = [ps EXCEPT !.setup = FALSE]
       ELSE ps' = [ps EXCEPT !.setup = FALSE, !.ready = TRUE,
                             !.stdin = Append(@, "setup")]
  /\ UNCHANGED <<cfg, shellId, op, cur, zombies, tr>>

\* the 1.5 s timer of connect: resolve()
onReadyTimer ==
  /\ ps.ready
  /\ ps' = [ps EXCEPT !.ready = FALSE, !.conn = "ok"]
  /\ UNCHANGED <<cfg, shellId, op, cur, zombies, tr>>

\* runCommand without the check of psProcess
runCommandUnguarded ==
  /\ ps.run # "pending"
  /\ Len(ps.stdin) < MaxWrites
  /\ ps' = [ps EXCEPT !.run = "pending", !.result = <<>>,
                      !.initialLength = Len(ps.buf),
                      !.stdin = Append(@, "command"), !.poll = TRUE]
  /\ UNCHANGED <<cfg, shellId, op, cur, zombies, tr>>

\* runCommand: throws with no process; else records outputBuffer.length,
\* writes the command and arms the 300 ms interval
runCommand ==
  /\ ps.run # "pending"
  /\ IF ps.proc = "none"
       THEN ps' = [ps EXCEPT !.run = "failed", !.result = <<>>]
       ELSE /\ Len(ps.stdin) < MaxWrites
            /\ ps' = [ps EXCEPT !.run = "pending", !.result = <<>>,
                                !.initialLength = Len(ps.buf),
                                !.stdin = Append(@, "command"), !.poll = TRUE]
  /\ UNCHANGED <<cfg, shellId, op, cur, zombies, tr>>

\* disconnect that resolves as soon as it has written
disconnectAtOnce ==
  /\ ps.disc # "pending"
  /\ IF ps.proc = "none"
       THEN ps' = [ps EXCEPT !.disc = "ok"]
       ELSE ps' = [ps EXCEPT !.disc = "ok",
                             !.stdin = @ \o <<"Exit-PSSession", "exit">>]
  /\ UNCHANGED <<cfg, shellId, op, cur, zombies, tr>>

\* disconnect: resolves at once with no process; else writes Exit-PSSession
\* and exit and adds the 'exit' listener that resolves it
disconnect ==
  /\ ps.disc # "pending"
  /\ IF ps.proc = "none"
       THEN ps' = [ps EXCEPT !.disc = "ok"]
       ELSE ps' = [ps EXCEPT !.disc = "pending",
                             !.stdin = @ \o <<"Exit-PSSession", "exit">>]
  /\ UNCHANGED <<cfg, shellId, op, cur, zombies, tr>>

\* outputBuffer.slice(initialLength)
newOutput == SubSeq(ps.buf, ps.initialLength + 1, Len(ps.buf))

\* one tick of the interval: when the last new line is a prompt it clears the
\* interval and resolves with the lines before it; else it does nothing
onCheckInterval ==
  /\ ps.poll
  /\ IF Len(newOutput) > 0 /\ newOutput[Len(newOutput)] = "prompt"
       THEN ps' = [ps EXCEPT !.poll = FALSE, !.run = "ok",
                             !.result = SubSeq(newOutput, 1, Len(newOutput) - 1)]
       ELSE UNCHANGED ps
  /\ UNCHANGED <<cfg, shellId, op, cur, zombies, tr>>

InitSession ==
  /\ tr = NoTracker
  /\ cfg \in {constructor(options) : options \in OptionsSet}
  /\ shellId = NULL
  /\ op = IdleOp
  /\ cur = NoChain
  /\ zombies = {}
  /\ ps \in {[NoSession EXCEPT !.creds = c] : c \in BOOLEAN}

NextSession ==
  \/ connect
  \/ \E kind \in LineKinds : onLine(kind)
  \/ onExit
  \/ onSetupTimer
  \/ onReadyTimer
  \/ runCommand
  \/ onCheckInterval
  \/ disconnect

\* an armed timer fires; the interpreter owes nothing
SpecSession ==
  /\ InitSession
  /\ [][NextSession]_vars
  /\ WF_vars(onSetupTimer)
  /\ WF_vars(onReadyTimer)
  /\ WF_vars(onCheckInterval)

\* ------------------------------------ the marker-based session manager
\* a line of output: "ready" includes CONNECT_MARKER, "done" includes
\* COMMAND_MARKER, "out" and "err" include neither
MarkedLineKinds == {"out", "err", "ready", "done"}

\* connect of the marker-based manager: spawns the interpreter and arms the
\* 500 ms timer
connectMarked ==
  /\ ps.conn # "pending"
  /\ ps.proc = "none"
  /\ ps' = [ps EXCEPT !.conn = "pending", !.proc = "running",
                      !.stdin = <<>>, !.setup = TRUE]
  /\ UNCHANGED <<cfg, shellId, op, cur, zombies, tr>>

\* the 500 ms timer: rejects with no process, else writes the session script
\* and arms the interval that looks for CONNECT_MARKER
onSetupTimerMarked ==
  /\ ps.setup
  /\ IF ps.proc = "none"
       THEN ps' = [ps EXCEPT !.setup = FALSE, !.conn = "failed"]
       ELSE ps' = [ps EXCEPT !.setup = FALSE, !.ready = TRUE,
                             !.stdin = Append(@, "setup")]
  /\ UNCHANGED <<cfg, shellId, op, cur, zombies, tr>>

\* one tick of the interval of connect: outputBuffer.some(includes marker)
onConnectInterval ==
  /\ ps.ready
  /\ IF \E i \in 1..Len(ps.buf) : ps.buf[i] = "ready"
       THEN ps' = [ps EXCEPT !.ready = FALSE, !.conn = "ok"]
       ELSE UNCHANGED ps
  /\ UNCHANGED <<cfg, shellId, op, cur, zombies, tr>>

\* runCommand of the marker-based manager: rejects with no process; else
\* records outputBuffer.length, writes the script and arms the interval
runCommandMarked ==
  /\ ps.run # "pending"
  /\ IF ps.proc = "none"
       THEN ps' = [ps EXCEPT !.run = "failed", !.result = <<>>]
       ELSE /\ Len(ps.stdin) < MaxWrites
            /\ ps' = [ps EXCEPT !.run = "pending", !.result = <<>>,
                                !.initialLength = Len(ps.buf),
                                !.stdin = Append(@, "script"), !.poll = TRUE]
  /\ UNCHANGED <<cfg, shellId, op, cur, zombies, tr>>

RECURSIVE linesUntilMarker(_)

\* every line, the marker lines left out
linesWithoutMarker(lines) == SelectSeq(lines, LAMBDA l : l # "done")

\* for (line of newOutput) { if includes(COMMAND_MARKER) break; push(line) }
linesUntilMarker(lines) ==
  IF lines = <<>> \/ Head(lines) = "done"
    THEN <<>>
    ELSE <<Head(lines)>> \o linesUntilMarker(Tail(lines))

\* Array.prototype.join('\n'): the elements with a newline between two
RECURSIVE join(_)
join(lines) ==
  IF Len(lines) <= 1
    THEN lines
    ELSE <<Head(lines), "\n">> \o join(Tail(lines))

\* one tick of the interval of runCommand: when a new line includes the
\* marker it clears the interval and resolves with the lines before it
onCommandInterval ==
  /\ ps.poll
  /\ IF \E i \in 1..Len(newOutput) : newOutput[i] = "done"
       THEN ps' = [ps EXCEPT !.poll = FALSE, !.run = "ok",
                             !.result = join(linesUntilMarker(newOutput))]
       ELSE UNCHANGED ps
  /\ UNCHANGED <<cfg, shellId, op, cur, zombies, tr>>

NextMarked ==
  \/ connectMarked
  \/ \E kind \in MarkedLineKinds : onLine(kind)
  \/ onExit
  \/ onSetupTimerMarked
  \/ onConnectInterval
  \/ runCommandMarked
  \/ onCommandInterval

SpecMarked == Init /\ [][NextMarked]_vars

\* ------------------------------------------------------ the request tracker
\* EventEmitter.removeListener: takes out the handler added last that is the
\* given one, and nothing when the given one was never added
removeListener(ls, h) ==
  IF \E i \in 1..Len(ls) : ls[i] = h
    THEN LET i == CHOOSE n \in 1..Len(ls) :
                    ls[n] = h /\ \A m \in (n + 1)..Len(ls) : ls[m] # h
         IN  SubSeq(ls, 1, i - 1) \o SubSeq(ls, i + 1, Len(ls))
    ELSE ls

\* startTracking: page.on('request', an arrow function written in place)
startTracking ==
  /\ Len(tr.listeners) < MaxListeners
  /\ tr' = [tr EXCEPT !.listeners = Append(@, "arrow"), !.stopped = FALSE]
  /\ UNCHANGED <<cfg, shellId, op, cur, zombies, ps>>

\* stopTracking: page.removeListener('request', this.trackRequest)
stopTracking ==
  /\ tr' = [tr EXCEPT !.listeners = removeListener(@, "trackRequest"),
                      !.stopped = TRUE]
  /\ UNCHANGED <<cfg, shellId, op, cur, zombies, ps>>

\* resetTracking: the maps are cleared
resetTracking ==
  /\ tr' = [tr EXCEPT !.requestMap = [k \in Keys |-> 0],
                      !.pendingRequests = [k \in Keys |-> <<>>]]
  /\ UNCHANGED <<cfg, shellId, op, cur, zombies, ps>>

\* the waiters whose resolver is in the list
resolversOf(list) == {list[i] : i \in 1..Len(list)}

\* the page emits 'request': every registered handler counts the key; the
\* first one calls every resolver stored for the key (clearTimeout, resolve)
\* and deletes the key from pendingRequests
onRequest(key) ==
  /\ tr.requestMap[key] + Len(tr.listeners) <= MaxCount
  /\ IF tr.listeners = <<>>
       THEN UNCHANGED tr
       ELSE tr' = [tr EXCEPT
              !.requestMap[key] = @ + Len(tr.listeners),
              !.pendingRequests[key] = <<>>,
              !.waiters = [w \in Waiters |->
                 IF w \in resolversOf(tr.pendingRequests[key])
                   THEN [@[w] EXCEPT !.timer = FALSE,
                           !.st = IF @ = "pending" THEN "ok" ELSE @]
                   ELSE @[w]]]
  /\ UNCHANGED <<cfg, shellId, op, cur, zombies, ps>>

\* waitForRequest: returns at once when the key was counted; else arms the
\* timeout and appends its resolver to the list of the key
waitForRequest(w, key) ==
  /\ tr.waiters[w].st = "idle"
  /\ IF tr.requestMap[key] > 0
       THEN tr' = [tr EXCEPT !.waiters[w] =
                     [key |-> key, st |-> "ok", timer |-> FALSE]]
       ELSE tr' = [tr EXCEPT
              !.waiters[w] = [key |-> key, st |-> "pending", timer |-> TRUE],
              !.pendingRequests[key] = Append(@, w)]
  /\ UNCHANGED <<cfg, shellId, op, cur, zombies, ps>>

\* the timeout of waitForRequest: pendingRequests.delete(key), then reject
onWaitTimeout(w) ==
  /\ tr.waiters[w].timer
  /\ tr' = [tr EXCEPT
         !.pendingRequests[tr.waiters[w].key] = <<>>,
         !.waiters[w] = [@ EXCEPT !.timer = FALSE,
                           !.st = IF @ = "pending" THEN "failed" ELSE @]]
  /\ UNCHANGED <<cfg, shellId, op, cur, zombies, ps>>

NextTracker ==
  \/ startTracking
  \/ stopTracking
  \/ \E key \in Keys : onRequest(key)
  \/ \E w \in Waiters : \E key \in Keys : waitForRequest(w, key)
  \/ \E w \in Waiters : onWaitTimeout(w)

SpecTracker == Init /\ [][NextTracker]_vars

\* checkRequestCount: resolves and clears the timeout when the count is
\* reached; else schedules itself again in 100 ms
checkRequestCount(t) ==
  IF t.requestMap[t.counting.key] >= t.counting.expectedCount
    THEN [t EXCEPT !.counting.timer = FALSE, !.counting.check = FALSE,
                   !.counting.st = IF @ = "pending" THEN "ok" ELSE @]
    ELSE [t EXCEPT !.counting.check = TRUE]

\* waitForRequestCount: arms the timeout and runs the first check
waitForRequestCount(key, expectedCount) ==
  /\ tr.counting.st = "idle"
  /\ tr' = checkRequestCount(
             [tr EXCEPT !.counting =
                [key |-> key, expectedCount |-> expectedCount,
                 st |-> "pending", timer |-> TRUE, check |-> FALSE]])
  /\ UNCHANGED <<cfg, shellId, op, cur, zombies, ps>>

\* the 100 ms timer: checkRequestCount runs again
onCheck ==
  /\ tr.counting.check
  /\ tr' = checkRequestCount(tr)
  /\ UNCHANGED <<cfg, shellId, op, cur, zombies, ps>>

\* the timeout of waitForRequestCount: reject, and nothing else
onCountTimeout ==
  /\ tr.counting.timer
  /\ tr' = [tr EXCEPT !.counting.timer = FALSE,
                      !.counting.st = IF @ = "pending" THEN "failed" ELSE @]
  /\ UNCHANGED <<cfg, shellId, op, cur, zombies, ps>>

NextCounting ==
  \/ startTracking
  \/ stopTracking
  \/ resetTracking
  \/ \E key \in Keys : onRequest(key)
  \/ \E key \in Keys : \E expectedCount \in 1..MaxCount :
       waitForRequestCount(key, expectedCount)
  \/ onCheck
  \/ onCountTimeout

SpecCounting == Init /\ [][NextCounting]_vars

TypeOK ==
  /\ shellId \in ShellIds \cup {NULL}
  /\ op.st \in {"idle", "pending", "ok", "failed"}
  /\ cur.phase \in {"none", "step", "inflight", "dead"}
  /\ \A z \in zombies : live(z) \/ z.early
  /\ Cardinality(zombies) <= 1

\* ------------------------------------------------------------ properties
Chain == cur # NoChain

Is2xx(status) == status >= 200 /\ status <= 299

NegotiateHeader(h) == Len(h) >= 2 /\ h[1] = "Negotiate"

\* <<"step", "post">> repeated n times
RECURSIVE StepPost(_)
StepPost(n) == IF n = 0 THEN <<>> ELSE StepPost(n - 1) \o <<"step", "post">>

\* C1: executeCommand or receiveOutput invoked with no shellId fails with the
\* precondition error; the operation has no chain (no Kerberos step, no
\* request) and the session stays Unopened.
C1_PreconditionFailsFast ==
  (op.kind \in {"exec", "recv"} /\ op.before = NULL) =>
    /\ op.st = "failed"
    /\ op.err = "precondition"
    /\ cur = NoChain
    /\ shellId = NULL

C1_Witness ==
  /\ op.kind \in {"exec", "recv"}
  /\ op.before = NULL
  /\ op.err = "precondition"

\* C2: createShell invoked while a shell is open returns the identifier held,
\* has no chain (no Kerberos step, no request) and leaves shellId as it was.
C2_CreateShellIdempotent ==
  (op.kind = "create" /\ op.before # NULL) =>
    /\ op.st = "ok"
    /\ op.ret = op.before
    /\ cur = NoChain
    /\ shellId = op.before

C2_Witness ==
  /\ op.kind = "create"
  /\ op.before \in ShellIds
  /\ op.st = "ok"
  /\ op.ret = shellId

\* C3: deleteShell invoked with no shellId succeeds without a chain (no
\* Kerberos step, no request) and the session stays Unopened.
C3_DeleteShellNoop ==
  (op.kind = "delete" /\ op.before = NULL) =>
    /\ op.st = "ok"
    /\ cur = NoChain
    /\ shellId = NULL

C3_Witness ==
  /\ op.kind = "delete"
  /\ op.before = NULL
  /\ op.st = "ok"

\* C4: shellId changes in exactly two ways: from NULL to the identifier of the
\* response when a pending createShell succeeds, and from an identifier to
\* NULL when a pending deleteShell succeeds; a createShell or deleteShell
\* that succeeds makes that change, and nothing else changes shellId (an
\* identifier is never replaced by another one).
C4_Opens ==
  /\ shellId = NULL
  /\ shellId' \in ShellIds
  /\ op.kind = "create" /\ op.st = "pending"
  /\ op'.st = "ok" /\ op'.ret = shellId'
  /\ cur'.last.body = Body("Shell", shellId')

C4_Closes ==
  /\ shellId \in ShellIds
  /\ shellId' = NULL
  /\ op.kind = "delete" /\ op.st = "pending"
  /\ op'.st = "ok"

C4_SessionTransitions ==
  [][/\ shellId' # shellId => C4_Opens \/ C4_Closes
     /\ (op.st = "pending" /\ op'.st = "ok" /\ op.kind = "create")
          => shellId = NULL /\ shellId' \in ShellIds
     /\ (op.st = "pending" /\ op'.st = "ok" /\ op.kind = "delete")
          => shellId \in ShellIds /\ shellId' = NULL
     /\ (op.st = "pending" /\ op'.st = "failed") => shellId' = shellId]_vars

C4_Witness ==
  /\ op.kind = "delete"
  /\ op.before \in ShellIds
  /\ op.st = "ok"
  /\ shellId = NULL
  /\ cur.last.status = 200

\* C5: every Command, Receive and Delete request put on the wire carries a
\* non-empty ShellId selector, and the selector is the client's shellId at
\* that moment (the identifier of the latest successful createShell that no
\* successful deleteShell has followed).
C5_WireCarriesCurrentShell ==
  \A ch \in {cur} \cup zombies : \A i \in DOMAIN ch.posts :
    ch.posts[i].envelope.action \in {"Command", "Receive", "Delete"} =>
      /\ ~falsy(ch.posts[i].envelope.shellId)
      /\ ch.posts[i].envelope.shellId = ch.posts[i].shell

\* C6: when the first k POSTs of an operation were answered 401 with a
\* challenge and POST k+1 is answered 2xx, k+1 Kerberos steps and k+1 POSTs
\* were made, step and POST alternating, and the operation (when no request
\* timer of its chain has fired, which would have failed it earlier) returns
\* what the body holds: the shell identifier, the command identifier, the
\* output.
C6_Returns ==
  LET body == cur.last.body IN
  /\ (op.kind = "create" /\ body.t = "Shell" /\ body.v # "")
       => op.st = "ok" /\ op.ret = body.v /\ shellId = body.v
  /\ (op.kind = "exec" /\ body.t = "CommandResponse" /\ body.v # "")
       => op.st = "ok" /\ op.ret = body.v
  /\ (op.kind = "recv" /\ body.t = "ReceiveResponse")
       => op.st = "ok" /\ op.ret = extractCommandOutput(body)
  /\ (op.kind = "delete" /\ body.t # "Malformed") => op.st = "ok"

C6_NegotiationRoundTrips ==
  (cur.phase = "dead" /\ Is2xx(cur.last.status)) =>
    LET k == Len(cur.chals) IN
    /\ cur.steps = k + 1
    /\ Len(cur.posts) = k + 1
    /\ cur.trace = StepPost(k + 1)
    /\ ~cur.fired => C6_Returns

C6_Witness ==
  /\ op.kind = "create"
  /\ Len(cur.chals) = 1
  /\ cur.last.status = 200
  /\ cur.steps = 2
  /\ op.st = "ok"
  /\ op.ret = shellId

\* C7: every retry sends the envelope of the first attempt (same MessageID);
\* its token is the output of the step on the challenge of the 401 just
\* before it, without the Negotiate prefix; the first token is the output of
\* the initial step; no two POSTs of the operation carry the same token.
C7_RetrySameBodyFreshToken ==
  /\ \A i \in DOMAIN cur.posts :
       /\ cur.posts[i].envelope = cur.posts[1].envelope
       /\ cur.posts[i].token =
            kerberosStep(i, IF i = 1 THEN "" ELSE cur.chals[i - 1])
       /\ \A j \in DOMAIN cur.posts : j # i => cur.posts[j].token # cur.posts[i].token
  /\ (cur.phase = "inflight" /\ Len(cur.posts) >= 2) =>
       /\ cur.last.status = 401
       /\ NegotiateHeader(cur.last.hdr)
       /\ cur.posts[Len(cur.posts)].token.in = cur.last.hdr[2]

C7_Witness ==
  /\ Len(cur.posts) = 3
  /\ cur.phase = "inflight"
  /\ cur.chals[1] # cur.chals[2]
  /\ cur.posts[3].token.in = cur.chals[2]

\* C8: after a 401 without a usable challenge (no header, or a header that
\* does not begin with "Negotiate ") the chain has ended with the steps and
\* POSTs made so far, and the operation has failed: with the authentication
\* error, unless a request timer of its chain had failed it before.
C8_NoChallengeIsFatal ==
  (cur.last.status = 401 /\ ~NegotiateHeader(cur.last.hdr)) =>
    /\ cur.phase = "dead"
    /\ cur.steps = Len(cur.chals) + 1
    /\ Len(cur.posts) = Len(cur.chals) + 1
    /\ op.st = "failed"
    /\ ~cur.fired => op.err = "auth"

C8_Witness ==
  /\ cur.last.status = 401
  /\ cur.last.hdr = <<"Basic", "realm">>
  /\ Len(cur.chals) = 1
  /\ op.err = "auth"

\* C9: after an answer whose status is outside [200,299] and not 401 the
\* chain has ended with the steps and POSTs made so far, and the operation
\* has failed: with the transport error that carries the status, unless a
\* request timer of its chain had failed it before.
C9_TransportErrorNotRetried ==
  (Chain /\ cur.last.status # 0 /\ cur.last.status # 401
     /\ ~Is2xx(cur.last.status)) =>
    /\ cur.phase = "dead"
    /\ cur.steps = Len(cur.chals) + 1
    /\ Len(cur.posts) = Len(cur.chals) + 1
    /\ op.st = "failed"
    /\ ~cur.fired => (op.err = "transport" /\ op.status = cur.last.status)

C9_Witness ==
  /\ cur.last.status = 199
  /\ op.err = "transport"
  /\ op.status = 199
  /\ cur.phase = "dead"

\* C10: measured from its first POST, an operation settles within the
\* configured timeout, and the timer that fails it with the timeout error
\* aborts the request that is in flight at that moment.
C10_TimeoutBoundsOperation ==
  [][/\ cur'.el <= cfg.timeout
     /\ (op.st = "pending" /\ op'.st = "failed" /\ op'.err = "timeout"
           /\ cur.phase = "inflight") => cur'.phase = "dead"]_vars

\* C11: an operation makes at most 3 challenge-driven retries (4 POSTs): when
\* a further 401 + challenge arrives the chain ends without another step or
\* POST and the operation has failed.
C11_RetryBudgetCapsChain ==
  /\ Len(cur.posts) <= 4
  /\ Len(cur.chals) > 3 => (cur.phase = "dead" /\ op.st = "failed")

\* a 2xx answer whose body parsed: the response the operation goes on to read
Parsed2xx ==
  /\ cur.phase = "dead"
  /\ Is2xx(cur.last.status)
  /\ cur.last.body.t # "Malformed"

C13_MissingCommandIdIsProtocolError ==
  /\ (op.kind = "exec" /\ op.st = "ok") => op.ret \in CommandIds
  /\ op.kind = "exec" => shellId = op.before
  /\ (op.kind = "exec" /\ Parsed2xx
        /\ (cur.last.body.t # "CommandResponse" \/ cur.last.body.v = "")) =>
       /\ op.st = "failed"
       /\ ~cur.fired => op.err = "protocol"

C13_Witness ==
  /\ op.kind = "exec"
  /\ cur.last.status = 299
  /\ cur.last.body.t = "Other"
  /\ op.err = "protocol"
  /\ shellId \in ShellIds

\* the texts of the streams, each decoded on its own, one after the other
RECURSIVE ConcatDecoded(_)
ConcatDecoded(streams) ==
  IF streams = <<>> THEN <<>>
  ELSE base64Decode(Head(streams)) \o ConcatDecoded(Tail(streams))

\* "hello world"
HelloWorld == <<104, 101, 108, 108, 111, 32, 119, 111, 114, 108, 100>>

ReceiveReturned ==
  /\ op.kind = "recv"
  /\ op.st = "ok"
  /\ cur.last.body.t = "ReceiveResponse"

\* the payloads aGVsbG8= and IHdvcmxk give "hello world"
HelloWorldExample ==
  (ReceiveReturned
     /\ cur.last.body.streams =
          <<<<"a", "G", "V", "s", "b", "G", "8", "=">>,
            <<"I", "H", "d", "v", "c", "m", "x", "k">>>>)
    => op.ret = HelloWorld

\* C14: the output receiveOutput returns is the concatenation, in document
\* order, of the decoded texts of all Stream elements with its trailing white
\* space removed and nothing else: leading white space and white space
\* between streams stay.
C14_OutputIsConcatTrimmedAtEnd ==
  ReceiveReturned => op.ret = trimEnd(ConcatDecoded(cur.last.body.streams))

NoStreamText(streams) == \A i \in DOMAIN streams : streams[i] = <<>>

\* C15: a parsed 2xx Receive response with no Stream element, or only Stream
\* elements without text, makes receiveOutput return the empty output (unless
\* a request timer had failed the operation before); the call made one
\* Receive exchange: one POST and one more for each challenge, all with the
\* same envelope, and the chain has ended, so nothing is sent after the
\* answer.
C15_EmptyOutputOneExchange ==
  /\ op.kind = "recv" => /\ Len(cur.posts) <= Len(cur.chals) + 1
                         /\ \A i \in DOMAIN cur.posts :
                              cur.posts[i].envelope = cur.posts[1].envelope
  /\ (op.kind = "recv" /\ Parsed2xx /\ cur.last.body.t = "ReceiveResponse"
        /\ NoStreamText(cur.last.body.streams)) =>
       /\ ~cur.fired => (op.st = "ok" /\ op.ret = <<>>)
       /\ op.st # "pending"
       /\ Len(cur.posts) = Len(cur.chals) + 1
       /\ ~live(cur)

C15_Witness ==
  /\ op.kind = "recv"
  /\ cur.last.status = 200
  /\ cur.last.body.t = "ReceiveResponse"
  /\ cur.last.body.streams = <<<<>>>>
  /\ Len(cur.chals) = 1
  /\ Len(cur.posts) = 2
  /\ op.st = "ok"
  /\ op.ret = <<>>

\* C16: receiveOutput returns the empty output only for a response of the
\* shape Envelope/Body/ReceiveResponse; for a parsed 2xx response without
\* that shape it has failed.
C16_ShapelessResponseFails ==
  /\ (op.kind = "recv" /\ op.st = "ok" /\ op.ret = <<>>)
       => cur.last.body.t = "ReceiveResponse"
  /\ (op.kind = "recv" /\ Parsed2xx /\ cur.last.body.t # "ReceiveResponse")
       => op.st = "failed"

Entities == {Amp, Lt, Gt, Quot, Apos}

StartsWith(str, prefix) ==
  Len(str) >= Len(prefix) /\ SubSeq(str, 1, Len(prefix)) = prefix

\* the character an entity stands for
EntityChar(e) ==
  CASE e = Amp -> "&" [] e = Lt -> "<" [] e = Gt -> ">"
    [] e = Quot -> "\"" [] e = Apos -> "'"

\* what an XML parser reads back from element text
RECURSIVE UnescapeXml(_)
UnescapeXml(str) ==
  IF str = <<>> THEN <<>>
  ELSE IF \E e \in Entities : StartsWith(str, e)
    THEN LET e == CHOOSE x \in Entities : StartsWith(str, x) IN
         <<EntityChar(e)>> \o UnescapeXml(SubSeq(str, Len(e) + 1, Len(str)))
    ELSE <<Head(str)>> \o UnescapeXml(Tail(str))

\* no raw <, >, " or ', and every & begins one of the five entities
EscapedForm(str) ==
  \A i \in DOMAIN str :
    /\ str[i] \notin {"<", ">", "\"", "'"}
    /\ str[i] = "&" =>
         \E e \in Entities : StartsWith(SubSeq(str, i, Len(str)), e)

\* C17: the Command element of the envelope executeCommand builds holds the
\* command in escaped form, and unescaping that text gives the command back,
\* also for a command that itself contains entity text such as "&lt;".
C17_EscapeRoundTrip ==
  (op.kind = "exec" /\ cur.env.action = "Command") =>
    /\ EscapedForm(cur.env.commandLine)
    /\ UnescapeXml(cur.env.commandLine) = op.arg

C17_Witness ==
  /\ op.kind = "exec"
  /\ op.arg = <<"&", "l", "t", ";">>
  /\ cur.env.commandLine = <<"&", "a", "m", "p", ";", "l", "t", ";">>

\* the chain ended in a Kerberos step: the step reported an error
StepFailed ==
  /\ cur.phase = "dead"
  /\ cur.trace # <<>>
  /\ cur.trace[Len(cur.trace)] = "step"

\* C18: when a Kerberos step fails the operation has failed (with the
\* authentication error, unless a request timer had failed it before), no
\* POST follows the failed step (none at all when the initial step failed),
\* the step is not taken again (one step per POST sent, one more at most),
\* and shellId is as it was at the call.
C18_StepFailureIsFatal ==
  /\ cur.steps <= Len(cur.posts) + 1
  /\ StepFailed =>
       /\ op.st = "failed"
       /\ ~cur.fired => op.err = "auth"
       /\ Len(cur.posts) = cur.steps - 1
       /\ Len(cur.posts) = Len(cur.chals)
       /\ shellId = op.before

C18_Witness ==
  /\ StepFailed
  /\ op.kind = "delete"
  /\ cur.trace = <<"step", "post", "step">>
  /\ op.err = "auth"
  /\ shellId \in ShellIds

Supplied(field, default) == IF field = <<>> THEN default ELSE field[1]

\* C20: whatever options object the client was constructed from, the
\* configuration holds its host, port and service principal name and, for
\* useSSL, path and timeout, the supplied value, or the default (FALSE,
\* "/wsman", 60000) when the field was omitted.
C20_ConfigKeepsSuppliedValues ==
  \A options \in AllOptions :
    cfg = constructor(options) =>
      /\ cfg.host = options.host
      /\ cfg.port = options.port
      /\ cfg.spn = options.servicePrincipalName
      /\ cfg.useSSL = Supplied(options.useSSL, FALSE)
      /\ cfg.path = Supplied(options.path, DefaultPath)
      /\ cfg.timeout = Supplied(options.timeout, DefaultTimeout)

\* C21: no step of any operation, whatever its outcome, changes host, port,
\* service principal name, useSSL, path or timeout: the configuration stays
\* the one the constructor set, and shellId is the only field that changes.
C21_ConfigNeverChanges ==
  [][/\ cfg' = cfg
     /\ cfg' \in {constructor(options) : options \in OptionsSet}]_vars

C21_Witness ==
  /\ op.kind = "delete"
  /\ op.st = "failed"
  /\ op.err = "transport"
  /\ op.status = 0
  /\ cfg \in {constructor(options) : options \in OptionsSet}
  /\ shellId \in ShellIds

\* C22: when a second createShell is started while the first is pending,
\* both calls pass the check of shellId and both own a Create request; each
\* 2xx answer, in the order the answers are processed, sets shellId to its
\* identifier, so the client ends with the identifier processed last.
C22_OverlappingCreatesBothSend ==
  [][\A z \in zombies' : z.early =>
       /\ zombies = {} =>
            /\ op'.kind = "create" /\ op'.st = "pending"
            /\ cur' # NoChain
            /\ cur'.env.action = "Create" /\ z.env.action = "Create"
       /\ (z \notin zombies /\ z.phase = "dead") => shellId' = z.last.body.v
       /\ (cur.phase = "inflight" /\ cur'.phase = "dead")
            => shellId' = cur'.last.body.v]_vars

C22_Witness ==
  \E z \in zombies :
    /\ z.early
    /\ z.phase = "dead" /\ cur.phase = "dead"
    /\ Len(z.posts) = 1 /\ Len(cur.posts) = 1
    /\ z.last.body.v = "shellA"
    /\ cur.last.body.v = "shellB"
    /\ shellId = "shellA"
    /\ op.st = "ok" /\ op.ret = "shellB"

\* C23: however many POSTs of an operation were answered 401 with a
\* Negotiate challenge, while no timer has fired the chain has not ended and
\* the operation has not failed: the client is taking the next step, or has
\* sent the next POST (one more POST than challenges); and the chain leaves
\* the step only by sending that POST.
C23_EveryChallengeIsRetried ==
  [][/\ (cur'.last.status = 401 /\ NegotiateHeader(cur'.last.hdr)
           /\ ~cur'.fired) =>
          /\ live(cur')
          /\ op'.st = "pending"
          /\ cur'.phase = "step" => Len(cur'.posts) = Len(cur'.chals)
          /\ cur'.phase = "inflight" => Len(cur'.posts) = Len(cur'.chals) + 1
     /\ (cur.phase = "step" /\ cur'.env = cur.env /\ cur'.phase # "step"
           /\ ~cur.fired /\ ~cur'.fired) =>
          /\ cur'.phase = "inflight"
          /\ Len(cur'.posts) = Len(cur.chals) + 1]_vars

C23_Witness ==
  /\ Len(cur.chals) = MaxChallenges
  /\ Len(cur.posts) = MaxChallenges + 1
  /\ cur.steps = MaxChallenges + 1
  /\ cur.phase = "inflight"
  /\ op.st = "pending"

\* C24: an operation that has failed, for whatever reason, has left shellId
\* as it was at the call: a failed createShell leaves the client Unopened, a
\* failed deleteShell leaves it Open with the same identifier, also when a
\* retry of the failed call is answered 2xx afterwards.
C24_FailureKeepsSession ==
  /\ op.st = "failed" => shellId = op.before
  /\ (op.kind = "create" /\ op.st = "failed") => shellId = NULL
  /\ (op.kind = "delete" /\ op.st = "failed") => shellId \in ShellIds

C24_Witness ==
  /\ op.kind = "delete"
  /\ op.st = "failed"
  /\ op.err = "timeout"
  /\ cur.phase = "dead"
  /\ cur.last.status = 200
  /\ shellId = op.before
  /\ shellId \in ShellIds

\* C25: executeCommand and receiveOutput leave shellId as it was at the
\* call in every outcome, and on an Open session receiveOutput sends a
\* Receive request with the commandId the caller passed, whether or not an
\* executeCommand has returned that identifier.
C25_CommandsKeepSession ==
  /\ op.kind \in {"exec", "recv"} => shellId = op.before
  /\ (op.kind = "recv" /\ op.before # NULL) =>
       /\ cur.env.action = "Receive"
       /\ cur.env.arg = op.arg
       /\ cur.env.shellId = op.before
       /\ \A i \in DOMAIN cur.posts : cur.posts[i].envelope = cur.env

C25_Witness ==
  /\ op.kind = "recv"
  /\ op.arg = "cmdX"
  /\ op.arg \notin CommandIds
  /\ Len(cur.posts) = 1
  /\ cur.posts[1].envelope.arg = "cmdX"
  /\ op.st = "ok"
  /\ shellId = op.before

\* C26: once an operation has failed, its chain takes no Kerberos step and
\* sends no POST; and a timer that fails the operation with the timeout
\* error leaves no chain of it running.
C26_NothingAfterFailure ==
  [][/\ (op.st = "failed" /\ op' = op) =>
          /\ cur'.steps = cur.steps
          /\ Len(cur'.posts) = Len(cur.posts)
     /\ (op.st = "pending" /\ op'.st = "failed" /\ op'.err = "timeout")
          => ~live(cur')]_vars

\* C27: the CommandId attribute of the Receive envelope holds the command
\* identifier in escaped form (no raw <, >, " or ', & only as the start of
\* an entity), and unescaping it gives the identifier the caller passed.
C27_IdentifiersAreEscaped ==
  (op.kind = "recv" /\ cur.env.action = "Receive") =>
    /\ EscapedForm(cur.env.arg)
    /\ UnescapeXml(cur.env.arg) = op.arg

\* C28: for every configuration and every request of every operation, the
\* wsa:To address of the envelope is the target of the POST: scheme https
\* exactly when useSSL is set, else http, and the configured host, port and
\* path.
C28_ToMatchesTarget ==
  \A i \in DOMAIN cur.posts :
    LET p == cur.posts[i] IN
    /\ p.envelope.to = p.target
    /\ p.target = <<IF cfg.useSSL THEN "https" ELSE "http",
                    cfg.host, cfg.port, cfg.path>>

C28_Witness ==
  /\ cfg.useSSL
  /\ cfg.path = "/custom"
  /\ op.kind = "recv"
  /\ Len(cur.posts) = 1
  /\ cur.posts[1].envelope.to[1] = "https"
  /\ cur.posts[1].target[1] = "https"

\* C29: connect() always settles: a pending connect is eventually resolved or
\* rejected, also when the interpreter exits before the setup timer fires.
C29_ConnectSettles == (ps.conn = "pending") ~> (ps.conn # "pending")

\* C30: runCommand() always settles once the command is written: a pending
\* runCommand eventually resolves or rejects with its interval cleared, also
\* when the interpreter exits or never prints a prompt.
C30_RunCommandSettles ==
  (ps.run = "pending") ~> (ps.run # "pending" /\ ~ps.poll)

\* the index in outputBuffer of the first marker line after the write
FirstMarker ==
  CHOOSE i \in (ps.initialLength + 1)..Len(ps.buf) :
    /\ ps.buf[i] = "done"
    /\ \A j \in (ps.initialLength + 1)..(i - 1) : ps.buf[j] # "done"

C32_DisconnectWaitsForExit ==
  [][/\ (ps.disc = "idle" /\ ps'.disc = "ok") =>
          (ps.proc = "none" /\ ps'.stdin = ps.stdin)
     /\ (ps.disc # "pending" /\ ps'.disc = "pending") =>
          (/\ ps.proc = "running"
           /\ ps'.stdin = ps.stdin \o <<"Exit-PSSession", "exit">>)
     /\ (ps.disc = "pending" /\ ps'.disc # "pending") =>
          (ps'.disc = "ok" /\ ps.proc = "running")
     /\ (ps.disc # "ok" /\ ps'.disc = "ok") => ps'.proc = "none"
     /\ (/\ ps.disc = "ok"
         /\ ps.proc = "none"
         /\ ps.run # "pending"
         /\ ps'.run # ps.run) => ps'.run = "failed"]_vars

\* a disconnect that wrote to the interpreter has resolved, and runCommand
\* has failed with no process held
C32_Witness ==
  /\ ps.disc = "ok"
  /\ ps.proc = "none"
  /\ Len(ps.stdin) >= 2
  /\ ps.stdin[Len(ps.stdin)] = "exit"
  /\ ps.run = "failed"

\* C33: runCommand called with no process held (before connect or after the
\* exit) fails, writes nothing to the interpreter, appends nothing to the
\* output buffer and arms no interval.
C33_RunCommandNeedsProcess ==
  [][(ps.proc = "none" /\ ps.run # "pending" /\ ps'.run # ps.run) =>
       (/\ ps'.run = "failed"
        /\ ps'.stdin = ps.stdin
        /\ ps'.buf = ps.buf
        /\ ~ps'.poll)]_vars

\* runCommand has failed after a connected interpreter exited
C33_Witness ==
  /\ ps.run = "failed"
  /\ ps.proc = "none"
  /\ ps.conn = "ok"
  /\ ps.disc = "idle"
  /\ ps.stdin = <<"setup">>

\* C34: in waitForRequest, a request of a key resolves every waiter of that
\* key whose own timeout has not fired, whatever happened to the other
\* waiters of the key.
C34_WaitersAreIndependent ==
  [][\A key \in Keys :
       (tr'.requestMap[key] > tr.requestMap[key]) =>
         \A w \in Waiters :
           (/\ tr.waiters[w].st = "pending"
            /\ tr.waiters[w].timer
            /\ tr.waiters[w].key = key) => tr'.waiters[w].st = "ok"]_vars

\* C35: once stopTracking has returned, no request raises a tracked count.
C35_StoppedTrackerCountsNothing ==
  [][(tr.stopped /\ tr'.stopped) =>
       \A key \in Keys : tr'.requestMap[key] <= tr.requestMap[key]]_vars

\* C36: once waitForRequestCount has resolved or rejected, no 100 ms check
\* is scheduled.
C36_SettledCountStopsPolling ==
  tr.counting.st \in {"ok", "failed"} => ~tr.counting.check

====
